---- MODULE Spec2Model ----
(***************************************************************************)
(* A state-machine model of the versa-forge backend: the category store    *)
(* and its admin-only CRUD handlers (async, one transaction per request),  *)
(* the agent store and its owner-scoped handlers, and the JWT codec.       *)
(*                                                                         *)
(* Category requests run concurrently, each in its own READ COMMITTED      *)
(* transaction (app/db/database.py get_db): a request first reads the      *)
(* committed store (its SELECTs), later writes and commits.  The two       *)
(* halves are the actions <Op>Begin and <Op>Commit; a request between      *)
(* them is an element of the bag inflight.                                 *)
(***************************************************************************)
EXTENDS Integers, Sequences, FiniteSets, Bags, TLC

VARIABLES
    categories,        \* committed rows of table categories: id -> [name, description]
    next_category_id,  \* the autoincrement sequence of categories.id
    inflight,          \* bag of open category transactions (read done, write pending)
    returned,          \* id -> the view the last successful create/update returned
    agents,            \* committed rows of table agents: id -> row
    agent_categories,  \* rows of table agent_categories: <<agent_id, category_id>>
    agent_groups,      \* rows of table agent_groups: <<agent_id, group_id>>
    next_agent_id,     \* the autoincrement sequence of agents.id
    now,               \* the clock, in minutes
    tokens,            \* the JWTs issued so far
    agent_files,       \* committed rows of table agent_files: id -> row
    next_file_id,      \* the autoincrement sequence of agent_files.id
    storage,           \* the upload directory: destination -> content
    uploads,           \* uploads whose file is written and whose row is pending
    users,             \* committed rows of table users: id -> row
    next_user_id,      \* the autoincrement sequence of users.id
    user_groups,       \* rows of table user_groups: <<user_id, group_id>>
    DEBUG_MODE,        \* settings.DEBUG_MODE
    calls,             \* agent requests whose service call has committed
    last               \* the response of the request that finished last

vars == <<categories, next_category_id, inflight, returned, agents,
          agent_categories, agent_groups, next_agent_id, now, tokens, agent_files,
          next_file_id, storage, uploads, users, next_user_id, user_groups,
          DEBUG_MODE, calls, last>>

categoryVars == <<categories, next_category_id, inflight, returned>>
agentVars == <<agents, agent_categories, agent_groups, next_agent_id>>
tokenVars == <<now, tokens>>
fileVars == <<agent_files, next_file_id, storage, uploads>>
userVars == <<users, next_user_id, user_groups>>
appVars == <<DEBUG_MODE, calls>>

\* Python's None.  TLC compares only values of one kind, so None has a
\* stand-in for each kind of value.
None == "None"
NoId == 0
NoName == <<"None">>
NoView == [none |-> TRUE]
\* A pydantic ValidationError in place of a parsed name or a view.
InvalidName == <<"invalid">>
InvalidView == [invalid |-> TRUE]

---------------------------------------------------------------------------
\* Bounds of the model.
MaxCategoryId == 2
MaxInFlight == 2
MaxAgentId == 2
MaxTime == 1
MaxTokens == 2
MaxFileId == 2
MaxUploads == 2
MaxUserId == 2
MaxGroupId == 2

\* Program constants.
MinNameLength == 5
MaxNameLength == 100
DefaultExpireMinutes == 30
DefaultLimit == 10
MinLimit == 1
MaxLimit == 100

---------------------------------------------------------------------------
\* The authenticated callers handed to the routes by Depends(get_current_user).
CurrentUsers ==
    { [id |-> 1, is_admin |-> TRUE],
      [id |-> 2, is_admin |-> FALSE] }

\* HTTP status codes.
HTTP_200_OK == 200
HTTP_201_CREATED == 201
HTTP_204_NO_CONTENT == 204
HTTP_400_BAD_REQUEST == 400
HTTP_401_UNAUTHORIZED == 401
HTTP_403_FORBIDDEN == 403
HTTP_404_NOT_FOUND == 404
HTTP_422_UNPROCESSABLE_ENTITY == 422
HTTP_500_INTERNAL_SERVER_ERROR == 500

\* A response: the handler, the status, the id the request named (or was
\* given) and the body's view (NoView when there is none).
Response(op, status, id, view) ==
    [op |-> op, status |-> status, id |-> id, view |-> view]

---------------------------------------------------------------------------
\* Strings are sequences of one-character strings.
Letters == {"A", "B", "a", "b", "h", "l", "o", "p", "r", "v"}
Digits == {"1"}

isspace(c) == c = " "
isalnum(c) == c \in Letters \cup Digits

\* Case folding of one character, as ILIKE and str.lower() do it.
lower(c) == CASE c = "A" -> "a" [] c = "B" -> "b" [] OTHER -> c

LowerStr(s) == [i \in 1..Len(s) |-> lower(s[i])]

RECURSIVE lstrip(_)
lstrip(s) == IF s # <<>> /\ isspace(Head(s)) THEN lstrip(Tail(s)) ELSE s

RECURSIVE rstrip(_)
rstrip(s) ==
    IF s # <<>> /\ isspace(s[Len(s)]) THEN rstrip(SubSeq(s, 1, Len(s) - 1)) ELSE s

\* str.strip()
strip(s) == rstrip(lstrip(s))

\* SQL  value ILIKE pattern : % matches any run, _ any one character,
\* every other character matches itself ignoring case.
RECURSIVE ilike(_, _)
ilike(value, pattern) ==
    IF pattern = <<>> THEN value = <<>>
    ELSE IF Head(pattern) = "%"
         THEN ilike(value, Tail(pattern))
              \/ (value # <<>> /\ ilike(Tail(value), pattern))
    ELSE IF Head(pattern) = "_"
         THEN value # <<>> /\ ilike(Tail(value), Tail(pattern))
    ELSE /\ value # <<>>
         /\ lower(Head(value)) = lower(Head(pattern))
         /\ ilike(Tail(value), Tail(pattern))

---------------------------------------------------------------------------
\* Category names the requests carry.
Alpha == <<"A", "l", "p", "h", "a">>
alpha == <<"a", "l", "p", "h", "a">>
Bravo == <<"B", "r", "a", "v", "o">>
PaddedAlpha == <<" ", "A", "l", "p", "h", "a", " ">>
PaddedShort == <<" ", " ", "A", "b", " ">>
Blank == <<" ", " ", " ", " ", " ">>
Short == <<"A", "b">>
BadChars == <<"A", "@", "p", "h", "a">>
TooLong == [i \in 1..(MaxNameLength + 1) |-> "A"]

Descriptions == {None, "", "d1"}

\* Field(..., min_length=5, max_length=100): checked on the value as sent.
LengthOk(name) == Len(name) >= MinNameLength /\ Len(name) <= MaxNameLength

\* CategoryBase.validate_name: the stripped name, or InvalidName (ValueError).
validate_name(value) ==
    LET v == strip(value) IN
    IF v = <<>> THEN InvalidName
    ELSE IF \E i \in 1..Len(v) : ~(isalnum(v[i]) \/ isspace(v[i]) \/ v[i] \in {"-", "'"})
         THEN InvalidName
    ELSE v

\* CategoryCreate(name=raw): the parsed name, or InvalidName (422).
CategoryCreateName(raw) ==
    IF LengthOk(raw) THEN validate_name(raw) ELSE InvalidName

\* CategoryUpdate.strip_name
strip_name(value) == IF value # NoName THEN strip(value) ELSE NoName

\* CategoryUpdate(name=raw): the parsed name (NoName when omitted), or InvalidName.
CategoryUpdateName(raw) ==
    IF raw = NoName THEN NoName
    ELSE IF LengthOk(raw) THEN strip_name(raw) ELSE InvalidName

\* CategoryResponse.model_validate(row): the view, or InvalidView when the row's
\* name fails CategoryBase's rules (pydantic ValidationError).
CategoryResponse(id, row) ==
    IF LengthOk(row.name) /\ validate_name(row.name) # InvalidName
    THEN [id |-> id, name |-> validate_name(row.name), description |-> row.description]
    ELSE InvalidView

---------------------------------------------------------------------------
\* The category table and the category service (services/categories_service.py)
\* behind the category router (api/routes/category_router.py).

CategoryIds == 1..MaxCategoryId

Tx(op, id, name, description) ==
    [op |-> op, id |-> id, name |-> name, description |-> description]

\* if not current_user.is_admin: raise HTTPException(403)
RequireAdminMutant(user) == TRUE
RequireAdmin(user) == user.is_admin

\* _validate_unique_category's SELECT: the ids whose name ILIKE the given one,
\* other than exclude_id when it is truthy (NoId stands for None and 0).
MatchingCategories(name, exclude_id) ==
    {id \in DOMAIN categories :
        /\ ilike(categories[id].name, strip(name))
        /\ (exclude_id # NoId => id # exclude_id)}

\* _validate_unique_category: "ok", "duplicate" (DuplicateCategoryException,
\* 400) or "multiple" (scalar_one_or_none raises MultipleResultsFound, 500).
validate_unique_category(name, exclude_id) ==
    LET n == Cardinality(MatchingCategories(name, exclude_id)) IN
    IF n = 0 THEN "ok" ELSE IF n = 1 THEN "duplicate" ELSE "multiple"

\* The UNIQUE constraint on categories.name (exact, case-sensitive) as the
\* INSERT or UPDATE of row id meets it.
NameTaken(name, id) ==
    \E other \in DOMAIN categories : other # id /\ categories[other].name = name

Put(f, k, v) == [x \in DOMAIN f \cup {k} |-> IF x = k THEN v ELSE f[x]]
Drop(f, k) == [x \in DOMAIN f \ {k} |-> f[x]]

\* Request parsing rejects a body that fails the schema before the route runs.
RejectCategoryBody(user, op, raw) ==
    /\ \/ op = "create" /\ CategoryCreateName(raw) = InvalidName
       \/ op = "update" /\ CategoryUpdateName(raw) = InvalidName
    /\ last' = Response(op, HTTP_422_UNPROCESSABLE_ENTITY, NoId, NoView)
    /\ UNCHANGED <<categoryVars, agentVars, tokenVars, fileVars, userVars, appVars>>

\* POST /categories/ up to the end of _validate_unique_category.
CreateCategoryBegin(cap, user, raw, description) ==
    /\ CategoryCreateName(raw) # InvalidName
    /\ LET name == strip(CategoryCreateName(raw))
           unique == validate_unique_category(name, NoId)
       IN
       IF ~RequireAdmin(user)
       THEN /\ last' = Response("create", HTTP_403_FORBIDDEN, NoId, NoView)
            /\ UNCHANGED inflight
       ELSE IF unique = "duplicate"
       THEN /\ last' = Response("create", HTTP_400_BAD_REQUEST, NoId, NoView)
            /\ UNCHANGED inflight
       ELSE IF unique = "multiple"
       THEN /\ last' = Response("create", HTTP_500_INTERNAL_SERVER_ERROR, NoId, NoView)
            /\ UNCHANGED inflight
       ELSE /\ BagCardinality(inflight) < cap
            /\ inflight' = inflight (+) SetToBag({Tx("create", NoId, name, description)})
            /\ UNCHANGED last
    /\ UNCHANGED <<categories, next_category_id, returned, agentVars, tokenVars, fileVars, userVars, appVars>>

\* db.add + flush (INSERT), CategoryResponse.model_validate, and get_db's commit.
CreateCategoryCommit(tx) ==
    /\ BagIn(tx, inflight) /\ tx.op = "create"
    /\ next_category_id <= MaxCategoryId
    /\ inflight' = inflight (-) SetToBag({tx})
    /\ next_category_id' = next_category_id + 1
    /\ LET id == next_category_id
           row == [name |-> tx.name, description |-> tx.description]
       IN
       IF NameTaken(tx.name, id) \/ CategoryResponse(id, row) = InvalidView
       THEN \* IntegrityError / ValidationError: rollback, 500
            /\ last' = Response("create", HTTP_500_INTERNAL_SERVER_ERROR, NoId, NoView)
            /\ UNCHANGED <<categories, returned>>
       ELSE /\ categories' = Put(categories, id, row)
            /\ returned' = Put(returned, id, CategoryResponse(id, row))
            /\ last' = Response("create", HTTP_201_CREATED, id, CategoryResponse(id, row))
    /\ UNCHANGED <<agentVars, tokenVars, fileVars, userVars, appVars>>

\* update_values: a falsy field of the request keeps the stored value.
UpdateValuesMutant(category, name, description) ==
    [name |-> IF name # NoName /\ name # <<>> THEN name ELSE category.name,
     description |-> category.description]
UpdateValues(category, name, description) ==
    [name |-> IF name # NoName /\ name # <<>> THEN strip(name) ELSE category.name,
     description |-> IF description # None /\ description # ""
                     THEN description ELSE category.description]

\* PUT /categories/{id} up to the computation of update_values.
UpdateCategoryBegin(cap, user, id, raw, description) ==
    /\ CategoryUpdateName(raw) # InvalidName
    /\ LET name == CategoryUpdateName(raw)
           unique == IF name # NoName /\ name # <<>>
                     THEN validate_unique_category(name, id) ELSE "ok"
       IN
       IF ~RequireAdmin(user)
       THEN /\ last' = Response("update", HTTP_403_FORBIDDEN, id, NoView)
            /\ UNCHANGED inflight
       ELSE IF id \notin DOMAIN categories
       THEN /\ last' = Response("update", HTTP_404_NOT_FOUND, id, NoView)
            /\ UNCHANGED inflight
       ELSE IF unique = "duplicate"
       THEN /\ last' = Response("update", HTTP_400_BAD_REQUEST, id, NoView)
            /\ UNCHANGED inflight
       ELSE IF unique = "multiple"
       THEN /\ last' = Response("update", HTTP_500_INTERNAL_SERVER_ERROR, id, NoView)
            /\ UNCHANGED inflight
       ELSE /\ BagCardinality(inflight) < cap
            /\ LET v == UpdateValues(categories[id], name, description) IN
               inflight' = inflight (+) SetToBag({Tx("update", id, v.name, v.description)})
            /\ UNCHANGED last
    /\ UNCHANGED <<categories, next_category_id, returned, agentVars, tokenVars, fileVars, userVars, appVars>>

\* The UPDATE statement, db.refresh, CategoryResponse.model_validate, commit.
UpdateCategoryCommit(tx) ==
    /\ BagIn(tx, inflight) /\ tx.op = "update"
    /\ inflight' = inflight (-) SetToBag({tx})
    /\ LET row == [name |-> tx.name, description |-> tx.description] IN
       IF \/ tx.id \notin DOMAIN categories     \* row gone: refresh raises
          \/ NameTaken(tx.name, tx.id)           \* IntegrityError
          \/ CategoryResponse(tx.id, row) = InvalidView
       THEN /\ last' = Response("update", HTTP_500_INTERNAL_SERVER_ERROR, tx.id, NoView)
            /\ UNCHANGED <<categories, returned>>
       ELSE /\ categories' = Put(categories, tx.id, row)
            /\ returned' = Put(returned, tx.id, CategoryResponse(tx.id, row))
            /\ last' = Response("update", HTTP_200_OK, tx.id, CategoryResponse(tx.id, row))
    /\ UNCHANGED <<next_category_id, agentVars, tokenVars, fileVars, userVars, appVars>>

\* delete_category when db.get finds nothing: raise in strict mode, else return.
DeleteMissingStatusMutant(strict) == HTTP_404_NOT_FOUND
DeleteMissingStatus(strict) ==
    IF strict THEN HTTP_404_NOT_FOUND ELSE HTTP_204_NO_CONTENT

\* DELETE /categories/{id}?strict= up to db.get.
DeleteCategoryBegin(cap, user, id, strict) ==
    /\ IF ~RequireAdmin(user)
       THEN /\ last' = Response("delete", HTTP_403_FORBIDDEN, id, NoView)
            /\ UNCHANGED inflight
       ELSE IF id \notin DOMAIN categories
       THEN /\ last' = Response("delete", DeleteMissingStatus(strict), id, NoView)
            /\ UNCHANGED inflight
       ELSE /\ BagCardinality(inflight) < cap
            /\ inflight' = inflight (+) SetToBag({Tx("delete", id, NoName, None)})
            /\ UNCHANGED last
    /\ UNCHANGED <<categories, next_category_id, returned, agentVars, tokenVars, fileVars, userVars, appVars>>

\* db.delete(category) flushed by get_db's commit; the row's agent_categories
\* rows go with it (cascade).  A row already gone only draws a warning.
DeleteCategoryCommitMutant(tx) ==
    /\ BagIn(tx, inflight) /\ tx.op = "delete"
    /\ inflight' = inflight (-) SetToBag({tx})
    /\ categories' = Drop(categories, tx.id)
    /\ returned' = Drop(returned, tx.id)
    /\ agent_categories' =
          {ac \in agent_categories :
             <<ac[1], tx.id>> \notin agent_categories}
    /\ last' = Response("delete", HTTP_204_NO_CONTENT, tx.id, NoView)
    /\ UNCHANGED <<next_category_id, agents, agent_groups, next_agent_id, tokenVars,
                   fileVars, userVars, appVars>>
DeleteCategoryCommit(tx) ==
    /\ BagIn(tx, inflight) /\ tx.op = "delete"
    /\ inflight' = inflight (-) SetToBag({tx})
    /\ categories' = Drop(categories, tx.id)
    /\ returned' = Drop(returned, tx.id)
    /\ agent_categories' = {ac \in agent_categories : ac[2] # tx.id}
    /\ last' = Response("delete", HTTP_204_NO_CONTENT, tx.id, NoView)
    /\ UNCHANGED <<next_category_id, agents, agent_groups, next_agent_id, tokenVars,
                   fileVars, userVars, appVars>>

\* GET /categories/{id}
GetCategory(user, id) ==
    /\ last' = IF id \notin DOMAIN categories
               THEN Response("get", HTTP_404_NOT_FOUND, id, NoView)
               ELSE IF CategoryResponse(id, categories[id]) = InvalidView
               THEN Response("get", HTTP_500_INTERNAL_SERVER_ERROR, id, NoView)
               ELSE Response("get", HTTP_200_OK, id, CategoryResponse(id, categories[id]))
    /\ UNCHANGED <<categoryVars, agentVars, tokenVars, fileVars, userVars, appVars>>

\* The category requests a server running at most cap of them at once can
\* take a step of, over the given request names and descriptions.
NextCategoryOver(cap, names, descriptions) ==
    \/ \E u \in CurrentUsers, op \in {"create", "update"}, raw \in names :
          RejectCategoryBody(u, op, raw)
    \/ \E u \in CurrentUsers, raw \in names, d \in descriptions :
          CreateCategoryBegin(cap, u, raw, d)
    \/ \E tx \in BagToSet(inflight) : CreateCategoryCommit(tx)
    \/ \E u \in CurrentUsers, id \in CategoryIds, raw \in names \cup {NoName},
          d \in descriptions : UpdateCategoryBegin(cap, u, id, raw, d)
    \/ \E tx \in BagToSet(inflight) : UpdateCategoryCommit(tx)
    \/ \E u \in CurrentUsers, id \in CategoryIds, strict \in BOOLEAN :
          DeleteCategoryBegin(cap, u, id, strict)
    \/ \E tx \in BagToSet(inflight) : DeleteCategoryCommit(tx)
    \/ \E u \in CurrentUsers, id \in CategoryIds : GetCategory(u, id)

InitWith(debug_mode) ==
    /\ categories = <<>>
    /\ next_category_id = 1
    /\ inflight = EmptyBag
    /\ returned = <<>>
    /\ agents = <<>>
    /\ agent_categories = {}
    /\ agent_groups = {}
    /\ next_agent_id = 1
    /\ now = 0
    /\ tokens = {}
    /\ agent_files = <<>>
    /\ next_file_id = 1
    /\ storage = <<>>
    /\ uploads = {}
    /\ users = <<>>
    /\ next_user_id = 1
    /\ user_groups = {}
    /\ DEBUG_MODE = debug_mode
    /\ calls = {}
    /\ last = [op |-> "none", status |-> 0, id |-> NoId, view |-> NoView]

\* The state after start-up with the default settings (DEBUG_MODE False).
Init == InitWith(FALSE)

\* One category request at a time, over every kind of name and description.
SerialNames == {Alpha, Bravo, PaddedAlpha, PaddedShort, Blank, Short, BadChars, TooLong}
NextCategory == NextCategoryOver(1, SerialNames, Descriptions)
SpecCategory == Init /\ [][NextCategory]_vars

\* Concurrent category requests, over names that differ in case only, one
\* other name and one the schema rejects.
RaceNames == {Alpha, alpha, Bravo, Short}
NextCategoryRace == NextCategoryOver(MaxInFlight, RaceNames, {None})
SpecCategoryRace == Init /\ [][NextCategoryRace]_vars

---------------------------------------------------------------------------
\* Properties of the category store.

Admins == {u \in CurrentUsers : u.is_admin}
NonAdmins == CurrentUsers \ Admins

\* The stored categories whose name equals the given one ignoring case.
SameNameIgnoringCase(name) ==
    {id \in DOMAIN categories : LowerStr(categories[id].name) = LowerStr(name)}

\* C1: create_category answers 400 (DuplicateCategory) whenever the trimmed
\* requested name equals, ignoring case, the name of a stored category, and
\* then leaves the stored categories as they were.
C1_DuplicateCreateRejected ==
    [][\A u \in Admins, raw \in RaceNames :
          (/\ CreateCategoryBegin(MaxInFlight, u, raw, None)
           /\ SameNameIgnoringCase(strip(raw)) # {})
          => /\ last'.op = "create"
             /\ last'.status = HTTP_400_BAD_REQUEST
             /\ categories' = categories]_vars

\* C2: in every committed state no two stored categories have names that are
\* equal ignoring case, however the concurrent requests interleave.
C2_NoCaseInsensitiveDuplicates ==
    \A i, j \in DOMAIN categories :
        i # j => LowerStr(categories[i].name) # LowerStr(categories[j].name)

\* A create, update or delete whose body passed the schema, made by a caller
\* who is not an admin, answers 403, opens no transaction and leaves the
\* stored categories as they were.
NonAdminHandlersRefuse ==
    /\ \A u \in NonAdmins, raw \in RaceNames :
          CreateCategoryBegin(MaxInFlight, u, raw, None)
          => /\ last' = Response("create", HTTP_403_FORBIDDEN, NoId, NoView)
             /\ inflight' = inflight /\ categories' = categories
    /\ \A u \in NonAdmins, id \in CategoryIds, raw \in RaceNames \cup {NoName} :
          UpdateCategoryBegin(MaxInFlight, u, id, raw, None)
          => /\ last' = Response("update", HTTP_403_FORBIDDEN, id, NoView)
             /\ inflight' = inflight /\ categories' = categories
    /\ \A u \in NonAdmins, id \in CategoryIds, strict \in BOOLEAN :
          DeleteCategoryBegin(MaxInFlight, u, id, strict)
          => /\ last' = Response("delete", HTTP_403_FORBIDDEN, id, NoView)
             /\ inflight' = inflight /\ categories' = categories

\* The stored categories change only when an open transaction commits, and
\* a step that opens a transaction is none of the refusals above.
OnlyAdminTransactionsWrite ==
    /\ categories' # categories
          => \E tx \in BagToSet(inflight) : inflight' = inflight (-) SetToBag({tx})
    /\ \A tx \in BagToSet(inflight') :
          CopiesIn(tx, inflight') > CopiesIn(tx, inflight)
          => last' = last /\ categories' = categories

\* C7 as stated: every category create, update or delete request of a caller
\* who is not an admin answers 403 and leaves the stored categories as they
\* were; only an admin's request changes them.
C7_NonAdminAlways403 ==
    [][/\ NonAdminHandlersRefuse
       /\ OnlyAdminTransactionsWrite
       /\ \A u \in NonAdmins, op \in {"create", "update"}, raw \in RaceNames :
             RejectCategoryBody(u, op, raw)
             => last'.status = HTTP_403_FORBIDDEN /\ categories' = categories]_vars

\* C7 amended: such a request answers 403 when its body passes the schema
\* and 422 when it does not, and in both cases leaves the stored categories
\* as they were; only an admin's request changes them.
C7_NonAdminRejected ==
    [][/\ NonAdminHandlersRefuse
       /\ OnlyAdminTransactionsWrite
       /\ \A u \in NonAdmins, op \in {"create", "update"}, raw \in RaceNames :
             RejectCategoryBody(u, op, raw)
             => /\ last'.status = HTTP_422_UNPROCESSABLE_ENTITY
                /\ inflight' = inflight /\ categories' = categories]_vars

\* C7's case: a non-admin's write was refused while categories are stored.
C7_Witness ==
    /\ last.op \in {"create", "update", "delete"}
    /\ last.status = HTTP_403_FORBIDDEN
    /\ categories # <<>>

GetGivesReturned ==
    \A u \in CurrentUsers, id \in CategoryIds :
        GetCategory(u, id)
        => IF id \in DOMAIN returned
           THEN last' = Response("get", HTTP_200_OK, id, returned[id])
           ELSE last' = Response("get", HTTP_404_NOT_FOUND, id, NoView)

\* What create and update return is the row they commit.
WritesReturnTheRow ==
    \A tx \in BagToSet(inflight) :
        /\ (CreateCategoryCommit(tx) /\ last'.status = HTTP_201_CREATED)
           => /\ last'.view = [id |-> last'.id, name |-> tx.name,
                               description |-> tx.description]
              /\ returned' = Put(returned, last'.id, last'.view)
              /\ last'.id \notin DOMAIN categories
              /\ categories' = Put(categories, last'.id,
                                   [name |-> tx.name, description |-> tx.description])
        /\ (UpdateCategoryCommit(tx) /\ last'.status = HTTP_200_OK)
           => /\ last'.view = [id |-> tx.id, name |-> tx.name,
                               description |-> tx.description]
              /\ returned' = Put(returned, tx.id, last'.view)
              /\ categories' = Put(categories, tx.id,
                                   [name |-> tx.name, description |-> tx.description])
        /\ DeleteCategoryCommit(tx) => tx.id \notin DOMAIN returned'

\* C9 as stated: a GET gives the view the create or update returned, 404
\* after the delete, and the update's view carries every field the request
\* gave.
C9_RoundTripEveryField ==
    [][/\ GetGivesReturned
       /\ WritesReturnTheRow
       /\ \A u \in Admins, id \in CategoryIds, raw \in SerialNames \cup {NoName},
             d \in Descriptions :
             (inflight' # inflight /\ last' = last /\ UpdateCategoryBegin(1, u, id, raw, d))
             => \E tx \in BagToSet(inflight') :
                   /\ tx.op = "update" /\ tx.id = id
                   /\ raw # NoName => tx.name = strip(raw)
                   /\ d # None => tx.description = d]_vars

\* C9 amended: as above, but the update's view carries the request's name
\* when it is not blank after trimming and its description when it is not
\* empty, and keeps the stored value of a field that is omitted, blank or
\* empty.
C9_RoundTrip ==
    [][/\ GetGivesReturned
       /\ WritesReturnTheRow
       /\ \A u \in Admins, id \in CategoryIds, raw \in SerialNames \cup {NoName},
             d \in Descriptions :
             (inflight' # inflight /\ last' = last /\ UpdateCategoryBegin(1, u, id, raw, d))
             => \E tx \in BagToSet(inflight') :
                   /\ tx.op = "update" /\ tx.id = id
                   /\ tx.name = IF raw # NoName /\ strip(raw) # <<>>
                                THEN strip(raw) ELSE categories[id].name
                   /\ tx.description = IF d \notin {None, ""}
                                       THEN d ELSE categories[id].description]_vars

\* C9's case: an update changed the name and the description, the view it
\* returned is W, and W is what a GET of the id now gives.
C9_Witness ==
    /\ last.op = "update" /\ last.status = HTTP_200_OK
    /\ last.id \in DOMAIN categories
    /\ last.view = returned[last.id]
    /\ last.view = CategoryResponse(last.id, categories[last.id])
    /\ last.view.name = Bravo /\ last.view.description = "d1"

---------------------------------------------------------------------------
\* The agent table and the agent service (services/agent_service.py, a
\* synchronous Session that commits inside each call) with the statuses the
\* agent router (api/routes/agents_router.py) gives its outcomes.

AgentIds == 1..MaxAgentId
UserIds == {u.id : u \in CurrentUsers}

Range(s) == {s[i] : i \in 1..Len(s)}

\* AgentCreate bodies: name, description, prompt, is_public, categories.
AgentCreate(name, is_public, cats) ==
    [name |-> name, description |-> None, prompt |-> "p",
     is_public |-> is_public, categories |-> cats]
AgentCreates ==
    {AgentCreate(n, p, c) : n \in {"agent-a", "agent-b"}, p \in BOOLEAN,
                            c \in {<<>>, <<1>>, <<1, 2>>}}

\* AgentUpdate bodies as model_dump(exclude_unset=True) gives them: only the
\* fields the request set.
AgentUpdates ==
    { [name |-> "agent-b"],
      [name |-> None],
      [is_public |-> TRUE],
      [is_public |-> FALSE, description |-> "d1"],
      [categories |-> <<>>],
      [categories |-> <<1>>] }

\* AgentResponse.model_validate(agent): the schema has no categories field.
AgentResponse(id, row) ==
    [id |-> id, name |-> row.name, description |-> row.description,
     prompt |-> row.prompt, is_public |-> row.is_public, owner_id |-> row.owner_id]

\* The response of an agent request, with the user who made it.
AgentResult(op, status, id, view, user) ==
    [op |-> op, status |-> status, id |-> id, view |-> view, user |-> user.id]

\* UNIQUE(agents.name) as the INSERT or UPDATE of row id meets it.
AgentNameTaken(name, id) ==
    \E other \in DOMAIN agents : other # id /\ agents[other].name = name

\* select(Agent).where(Agent.id == agent_id, Agent.owner_id == owner_id)
SelectOwnedAgentMutant(agent_id, owner_id) ==
    {id \in DOMAIN agents : id = agent_id}
SelectOwnedAgent(agent_id, owner_id) ==
    {id \in DOMAIN agents : id = agent_id /\ agents[id].owner_id = owner_id}

\* GET /agents/{agent_id}: get_agent_by_id(db, agent_id).  The function has
\* no user parameter, so for a private agent the test on line 61 reads the
\* unbound name user_id and raises NameError, which the router does not catch.
GetAgent(user, agent_id) ==
    /\ last' = IF agent_id \notin DOMAIN agents
               THEN AgentResult("get_agent", HTTP_404_NOT_FOUND, agent_id, NoView, user)
               ELSE IF ~agents[agent_id].is_public
               THEN AgentResult("get_agent", HTTP_500_INTERNAL_SERVER_ERROR,
                                agent_id, NoView, user)
               ELSE AgentResult("get_agent", HTTP_200_OK, agent_id,
                                AgentResponse(agent_id, agents[agent_id]), user)
    /\ UNCHANGED <<categoryVars, agentVars, tokenVars, fileVars, userVars, appVars>>

\* POST /agents/: create_agent(db, agent_data, owner_id).  The row takes the
\* body's name, description, prompt and is_public; agent_data.categories is
\* not read.  An IntegrityError is rolled back and becomes a 500.
CreateAgent(user, agent_data) ==
    /\ next_agent_id <= MaxAgentId
    /\ next_agent_id' = next_agent_id + 1
    /\ LET id == next_agent_id
           row == [name |-> agent_data.name, description |-> agent_data.description,
                   prompt |-> agent_data.prompt, is_public |-> agent_data.is_public,
                   owner_id |-> user.id]
       IN
       IF AgentNameTaken(agent_data.name, id)
       THEN /\ last' = AgentResult("create_agent", HTTP_500_INTERNAL_SERVER_ERROR,
                                   NoId, NoView, user)
            /\ UNCHANGED agents
       ELSE /\ agents' = Put(agents, id, row)
            /\ last' = AgentResult("create_agent", HTTP_201_CREATED, id,
                                   AgentResponse(id, row), user)
    /\ UNCHANGED <<agent_categories, agent_groups, categoryVars, tokenVars, fileVars,
                   userVars, appVars>>

\* The row after  for field, value in update_data.items(): setattr(...)
ApplyUpdate(row, update_data) ==
    [f \in DOMAIN row |-> IF f \in DOMAIN update_data THEN update_data[f] ELSE row[f]]

\* PUT /agents/{agent_id}: update_agent(db, agent_id, agent_data, owner_id).
\* Assigning a list of ints to the categories relationship raises before the
\* commit; a NULL or taken name, or a NULL is_public, fails the commit.
UpdateAgent(user, agent_id, update_data) ==
    /\ IF SelectOwnedAgent(agent_id, user.id) = {}
       THEN /\ last' = AgentResult("update_agent", HTTP_404_NOT_FOUND, agent_id, NoView, user)
            /\ UNCHANGED <<agents, agent_categories>>
       ELSE LET row == ApplyUpdate(agents[agent_id], update_data) IN
            IF \/ ("categories" \in DOMAIN update_data /\ update_data.categories # <<>>)
               \/ row.name = None
               \/ AgentNameTaken(row.name, agent_id)
            THEN /\ last' = AgentResult("update_agent", HTTP_500_INTERNAL_SERVER_ERROR,
                                        agent_id, NoView, user)
                 /\ UNCHANGED <<agents, agent_categories>>
            ELSE /\ agents' = Put(agents, agent_id, row)
                 /\ agent_categories' =
                       IF "categories" \in DOMAIN update_data
                       THEN {ac \in agent_categories : ac[1] # agent_id}
                       ELSE agent_categories
                 /\ last' = AgentResult("update_agent", HTTP_200_OK, agent_id,
                                        AgentResponse(agent_id, row), user)
    /\ UNCHANGED <<agent_groups, next_agent_id, categoryVars, tokenVars, fileVars,
                   userVars, appVars>>

\* DELETE /agents/{agent_id}: delete_agent(db, agent_id, owner_id) returns
\* False when the lookup finds nothing, and the router answers 404.
DeleteAgentMutant(user, agent_id) ==
    /\ IF SelectOwnedAgent(agent_id, user.id) = {}
       THEN /\ last' = AgentResult("delete_agent", HTTP_404_NOT_FOUND, agent_id, NoView, user)
            /\ UNCHANGED <<agents, agent_categories, agent_groups, agent_files>>
       ELSE /\ agents' = Drop(agents, agent_id)
            /\ agent_categories' = {ac \in agent_categories : ac[1] # agent_id}
            /\ agent_groups' = {ag \in agent_groups : ag[1] # agent_id}
            /\ agent_files' = agent_files
            /\ last' = AgentResult("delete_agent", HTTP_204_NO_CONTENT, agent_id, NoView, user)
    /\ UNCHANGED <<next_agent_id, categoryVars, tokenVars, next_file_id, storage, uploads, userVars, appVars>>
DeleteAgent(user, agent_id) ==
    /\ IF SelectOwnedAgent(agent_id, user.id) = {}
       THEN /\ last' = AgentResult("delete_agent", HTTP_404_NOT_FOUND, agent_id, NoView, user)
            /\ UNCHANGED <<agents, agent_categories, agent_groups, agent_files>>
       ELSE /\ agents' = Drop(agents, agent_id)
            /\ agent_categories' = {ac \in agent_categories : ac[1] # agent_id}
            /\ agent_groups' = {ag \in agent_groups : ag[1] # agent_id}
            /\ agent_files' = [id \in {f \in DOMAIN agent_files :
                                         agent_files[f].agent_id # agent_id}
                                 |-> agent_files[id]]
            /\ last' = AgentResult("delete_agent", HTTP_204_NO_CONTENT, agent_id, NoView, user)
    /\ UNCHANGED <<next_agent_id, categoryVars, tokenVars, next_file_id, storage, uploads, userVars, appVars>>

\* Agent requests, one at a time, beside an admin who creates categories.
NextAgent ==
    \/ \E u \in CurrentUsers, raw \in {Alpha, Bravo} :
          RequireAdmin(u) /\ CreateCategoryBegin(1, u, raw, None)
    \/ \E tx \in BagToSet(inflight) : CreateCategoryCommit(tx)
    \/ \E u \in CurrentUsers, id \in AgentIds : GetAgent(u, id)
    \/ \E u \in CurrentUsers, data \in AgentCreates : CreateAgent(u, data)
    \/ \E u \in CurrentUsers, id \in AgentIds, data \in AgentUpdates :
          UpdateAgent(u, id, data)
    \/ \E u \in CurrentUsers, id \in AgentIds : DeleteAgent(u, id)

SpecAgent == Init /\ [][NextAgent]_vars

---------------------------------------------------------------------------
\* Properties of the agent store.

\* C3: get_agent_by_id returns the agent exactly when it exists and is
\* public or owned by the requesting user; a private agent requested by
\* another user gives PermissionDenied (403), an id with no agent
\* ResourceNotFound (404).
C3_GetAgentVisibility ==
    [][\A u \in CurrentUsers, id \in AgentIds :
          GetAgent(u, id)
          => IF id \notin DOMAIN agents
             THEN last'.status = HTTP_404_NOT_FOUND /\ last'.view = NoView
             ELSE IF agents[id].is_public \/ agents[id].owner_id = u.id
             THEN /\ last'.status = HTTP_200_OK
                  /\ last'.view = AgentResponse(id, agents[id])
             ELSE last'.status = HTTP_403_FORBIDDEN /\ last'.view = NoView]_vars

C5_PublicAgentNeedsCategories ==
    [][\A u \in CurrentUsers, data \in AgentCreates :
          (data.is_public /\ data.categories = <<>> /\ CreateAgent(u, data))
          => /\ last'.status = HTTP_400_BAD_REQUEST
             /\ agents' = agents]_vars

\* C6: create_agent of a public agent with a list of stored category ids
\* answers 201, associates the new agent with exactly the listed categories
\* and reports them in the response.
C6_PublicAgentCategoriesAssigned ==
    [][\A u \in CurrentUsers, data \in AgentCreates :
          (/\ data.is_public /\ data.categories # <<>>
           /\ Range(data.categories) \subseteq DOMAIN categories
           /\ ~AgentNameTaken(data.name, next_agent_id)
           /\ CreateAgent(u, data))
          => /\ last'.status = HTTP_201_CREATED
             /\ {ac[2] : ac \in {x \in agent_categories' : x[1] = last'.id}}
                   = Range(data.categories)
             /\ "categories" \in DOMAIN last'.view
             /\ last'.view.categories = data.categories]_vars

---------------------------------------------------------------------------
\* The JWT codec (core/security.py).  The clock counts minutes; requests
\* arrive within MaxTime minutes of the start and of the default lifetime.

Clock == (0..MaxTime) \cup {DefaultExpireMinutes + t : t \in 0..MaxTime}

\* expires_delta arguments: {} is None, {m} is timedelta(minutes=m).
ExpiresDeltas == {{}, {0}, {1}, {-1}}

Minutes(delta) == CHOOSE m \in delta : TRUE

\* expires_delta or timedelta(minutes=30): None and timedelta(0) are falsy.
DeltaOrDefault(expires_delta) ==
    IF expires_delta = {} \/ expires_delta = {0}
    THEN DefaultExpireMinutes
    ELSE Minutes(expires_delta)

\* The outcome of get_jwt_payload.
TokenResult(status, id, detail) ==
    [op |-> "get_jwt_payload", status |-> status, id |-> id, view |-> NoView,
     detail |-> detail]

Tick ==
    /\ \E t \in Clock : t > now /\ now' = t
    /\ UNCHANGED <<tokens, last, categoryVars, agentVars, fileVars, userVars, appVars>>

\* create_jwt_token(token_data, expires_delta): the token carries the user's
\* id and exp; the record keeps the call's time and argument beside it.
create_jwt_token(user, expires_delta) ==
    /\ Cardinality(tokens) < MaxTokens
    /\ tokens' = tokens \cup
          {[token |-> [id |-> user.id, exp |-> now + DeltaOrDefault(expires_delta)],
            issued |-> now, expires_delta |-> expires_delta]}
    /\ last' = [op |-> "create_jwt_token", status |-> HTTP_200_OK, id |-> user.id,
                view |-> NoView, detail |-> ""]
    /\ UNCHANGED <<now, categoryVars, agentVars, fileVars, userVars, appVars>>

\* get_jwt_payload(token) of a token this server signed: jwt.decode raises
\* ExpiredSignatureError when exp <= now.
get_jwt_payload(issued_token) ==
    /\ issued_token \in tokens
    /\ last' = IF issued_token.token.exp <= now
               THEN TokenResult(HTTP_401_UNAUTHORIZED, issued_token.token.id, "Token expired")
               ELSE TokenResult(HTTP_200_OK, issued_token.token.id, "")
    /\ UNCHANGED <<tokenVars, categoryVars, agentVars, fileVars, userVars, appVars>>

\* get_jwt_payload of a token whose signature does not verify.
get_jwt_payload_forged ==
    /\ last' = TokenResult(HTTP_401_UNAUTHORIZED, NoId, "Invalid token")
    /\ UNCHANGED <<tokenVars, categoryVars, agentVars, fileVars, userVars, appVars>>

NextToken ==
    \/ Tick
    \/ \E u \in CurrentUsers, d \in ExpiresDeltas : create_jwt_token(u, d)
    \/ \E t \in tokens : get_jwt_payload(t)
    \/ get_jwt_payload_forged

SpecToken == Init /\ [][NextToken]_vars

---------------------------------------------------------------------------
\* Properties of the JWT codec.

\* The lifetime the caller asked for: the argument, or the default when the
\* argument is None.
RequestedMinutes(expires_delta) ==
    IF expires_delta = {} THEN DefaultExpireMinutes ELSE Minutes(expires_delta)

\* C10: verification of a token fails as expired whenever the clock is at or
\* past the token's issue time plus the lifetime requested for it; so a
\* token issued with lifetime 0 or less is refused on its first use.
C10_ExpiredAtRequestedExpiry ==
    [][\A t \in tokens :
          (get_jwt_payload(t) /\ now >= t.issued + RequestedMinutes(t.expires_delta))
          => /\ last'.status = HTTP_401_UNAUTHORIZED
             /\ last'.detail = "Token expired"]_vars

---------------------------------------------------------------------------
\* Agent files (services/agent_file_service.py behind
\* api/routes/agent_files_router.py).  save_file writes the file first and
\* inserts the metadata row afterwards; an upload between the two is an
\* element of uploads.

FileIds == 1..MaxFileId

\* File names, content types and contents the uploads carry.
Filenames == {<<"a", "/", "b">>, <<"a", "_", "b">>}
PDF == "application/pdf"
DOCX == "application/vnd.openxmlformats-officedocument.wordprocessingml.document"
ContentTypes == {PDF, DOCX, "text/plain"}
Contents == {"v1", "v2"}

allowed_types == {PDF, DOCX}

\* filename.replace('/', '_')
ReplaceSlash(filename) ==
    [i \in 1..Len(filename) |-> IF filename[i] = "/" THEN "_" ELSE filename[i]]

\* UPLOAD_DIR / f"{agent_id}_{safe filename}": the agent id has no "_", so
\* the path is the pair of the id and the replaced name.
Destination(agent_id, filename) ==
    [agent_id |-> agent_id, name |-> ReplaceSlash(filename)]

\* AgentFileResponse.model_validate(row)
AgentFileResponse(id, row) ==
    [id |-> id, agent_id |-> row.agent_id, filename |-> row.filename,
     content_type |-> row.content_type]

\* The outcome of AgentService.get_agent_by_id(db, agent_id) as the file
\* service calls it: "not_found", "error" (the NameError of line 61, for a
\* private agent) or "agent".
AgentLookup(agent_id) ==
    IF agent_id \notin DOMAIN agents THEN "not_found"
    ELSE IF ~agents[agent_id].is_public THEN "error"
    ELSE "agent"

\* UniqueConstraint("agent_id", "filename")
FileRowExists(agent_id, filename) ==
    \E id \in DOMAIN agent_files :
        agent_files[id].agent_id = agent_id /\ agent_files[id].filename = filename

\* if file.content_type not in allowed_types
TypeAllowed(content_type) == content_type \in allowed_types

\* if agent.owner_id != user_id
IsOwner(agent_id, user) == agents[agent_id].owner_id = user.id

\* POST /files/upload, save_file steps 1 to 3: ownership, MIME type, write.
\* The router turns every exception other than PermissionDenied and
\* UnsupportedFileType into a 500.
SaveFileBegin(user, agent_id, filename, content_type, content) ==
    /\ IF AgentLookup(agent_id) # "agent"
       THEN /\ last' = AgentResult("upload_file", HTTP_500_INTERNAL_SERVER_ERROR,
                                   agent_id, NoView, user)
            /\ UNCHANGED <<storage, uploads>>
       ELSE IF ~IsOwner(agent_id, user)
       THEN /\ last' = AgentResult("upload_file", HTTP_403_FORBIDDEN, agent_id, NoView, user)
            /\ UNCHANGED <<storage, uploads>>
       ELSE IF ~TypeAllowed(content_type)
       THEN /\ last' = AgentResult("upload_file", HTTP_400_BAD_REQUEST, agent_id, NoView, user)
            /\ UNCHANGED <<storage, uploads>>
       ELSE /\ Cardinality(uploads) < MaxUploads
            /\ storage' = Put(storage, Destination(agent_id, filename), content)
            /\ uploads' = uploads \cup
                  {[agent_id |-> agent_id, filename |-> filename,
                    content_type |-> content_type, content |-> content,
                    user |-> user.id]}
            /\ UNCHANGED last
    /\ UNCHANGED <<agent_files, next_file_id, categoryVars, agentVars, tokenVars, userVars, appVars>>

\* save_file step 4: async with db_session.begin(): add the row; on any
\* exception remove the destination file and re-raise (router: 500).
\* begun: the session already has a transaction when begin() is called, so
\* begin() raises InvalidRequestError; whether it has is decided by the
\* dependencies that hand the session in.  The INSERT fails on a row for the
\* same (agent_id, filename) and on an agent that is gone.
SaveFilePersist(upload, begun) ==
    /\ upload \in uploads
    /\ uploads' = uploads \ {upload}
    /\ LET destination == Destination(upload.agent_id, upload.filename)
           row == [agent_id |-> upload.agent_id, filename |-> upload.filename,
                   content_type |-> upload.content_type]
           user == [id |-> upload.user]
       IN
       IF begun
       THEN /\ storage' = Drop(storage, destination)
            /\ last' = AgentResult("upload_file", HTTP_500_INTERNAL_SERVER_ERROR,
                                   upload.agent_id, NoView, user)
            /\ UNCHANGED <<agent_files, next_file_id>>
       ELSE /\ next_file_id <= MaxFileId
            /\ next_file_id' = next_file_id + 1
            /\ IF \/ FileRowExists(upload.agent_id, upload.filename)
                  \/ upload.agent_id \notin DOMAIN agents
               THEN /\ storage' = Drop(storage, destination)
                    /\ last' = AgentResult("upload_file", HTTP_500_INTERNAL_SERVER_ERROR,
                                           upload.agent_id, NoView, user)
                    /\ UNCHANGED agent_files
               ELSE /\ agent_files' = Put(agent_files, next_file_id, row)
                    /\ last' = AgentResult("upload_file", HTTP_201_CREATED, upload.agent_id,
                                           AgentFileResponse(next_file_id, row), user)
                    /\ UNCHANGED storage
    /\ UNCHANGED <<categoryVars, agentVars, tokenVars, userVars, appVars>>

\* GET /files/: get_files.  list_files catches PermissionDenied only; a
\* ResourceNotFound reaches the exception table (404), a NameError is a 500.
GetFiles(user, agent_id) ==
    /\ last' =
         IF AgentLookup(agent_id) = "not_found"
         THEN AgentResult("list_files", HTTP_404_NOT_FOUND, agent_id, NoView, user)
         ELSE IF AgentLookup(agent_id) = "error"
         THEN AgentResult("list_files", HTTP_500_INTERNAL_SERVER_ERROR, agent_id, NoView, user)
         ELSE IF ~IsOwner(agent_id, user)
         THEN AgentResult("list_files", HTTP_403_FORBIDDEN, agent_id, NoView, user)
         ELSE AgentResult("list_files", HTTP_200_OK, agent_id,
                          [files |-> {AgentFileResponse(id, agent_files[id]) :
                                        id \in {f \in DOMAIN agent_files :
                                                  agent_files[f].agent_id = agent_id}}],
                          user)
    /\ UNCHANGED <<categoryVars, agentVars, tokenVars, fileVars, userVars, appVars>>

\* Uploads and listings, beside users who create agents.
FileAgentCreates == {AgentCreate("agent-a", p, <<>>) : p \in BOOLEAN}

NextFile ==
    \/ \E u \in CurrentUsers, data \in FileAgentCreates : CreateAgent(u, data)
    \/ \E u \in CurrentUsers, a \in AgentIds, f \in Filenames, ct \in ContentTypes,
          c \in Contents : SaveFileBegin(u, a, f, ct, c)
    \/ \E up \in uploads, begun \in BOOLEAN : SaveFilePersist(up, begun)
    \/ \E u \in CurrentUsers, a \in AgentIds : GetFiles(u, a)

SpecFile == Init /\ [][NextFile]_vars

---------------------------------------------------------------------------
\* Properties of the agent files.

\* C11: an upload by the agent's owner whose content type is neither PDF nor
\* DOCX answers 400 (unsupported file type), writes no file and creates no
\* metadata row.
C11_UnsupportedTypeRejected ==
    [][\A u \in CurrentUsers, a \in DOMAIN agents, f \in Filenames,
          ct \in ContentTypes \ allowed_types, c \in Contents :
          (agents[a].owner_id = u.id /\ SaveFileBegin(u, a, f, ct, c))
          => /\ last'.status = HTTP_400_BAD_REQUEST
             /\ UNCHANGED fileVars]_vars

\* C12: save_file and get_files by a user who does not own the agent answer
\* 403 (PermissionDenied), for public agents too, and store no file, add no
\* row and return no file metadata.
C12_FilesOwnerOnly ==
    [][/\ \A u \in CurrentUsers, a \in DOMAIN agents, f \in Filenames,
             ct \in ContentTypes, c \in Contents :
             (agents[a].owner_id # u.id /\ SaveFileBegin(u, a, f, ct, c))
             => /\ last'.status = HTTP_403_FORBIDDEN
                /\ UNCHANGED fileVars
       /\ \A u \in CurrentUsers, a \in DOMAIN agents :
             (agents[a].owner_id # u.id /\ GetFiles(u, a))
             => /\ last'.status = HTTP_403_FORBIDDEN
                /\ last'.view = NoView]_vars

\* C13: of the uploads to one agent under one filename at most one succeeds;
\* the other is answered DuplicateResource (400) and neither overwrites nor
\* removes the file the first one stored; there is never more than one
\* metadata row for an (agent_id, filename).
C13_DuplicateUploadKeepsWinner ==
    [][/\ \A u \in CurrentUsers, a \in DOMAIN agents, f \in Filenames,
             ct \in ContentTypes, c \in Contents :
             (FileRowExists(a, f) /\ SaveFileBegin(u, a, f, ct, c))
             => storage' = storage
       /\ \A up \in uploads, begun \in BOOLEAN :
             (FileRowExists(up.agent_id, up.filename) /\ SaveFilePersist(up, begun))
             => /\ last'.status = HTTP_400_BAD_REQUEST
                /\ storage' = storage
                /\ agent_files' = agent_files
       /\ \A i, j \in DOMAIN agent_files' :
             (/\ agent_files'[i].agent_id = agent_files'[j].agent_id
              /\ agent_files'[i].filename = agent_files'[j].filename) => i = j]_vars

---------------------------------------------------------------------------
\* The users table and the user service (services/user_service.py, one
\* request at a time, each in the transaction get_db commits), with the
\* statuses the application's exception handlers give the errors the user
\* routes (api/routes/user_router.py) let through.

UserRowIds == 1..MaxUserId
Usernames == {"alice", "bob"}
Emails == {"a@x.io", "b@x.io", "c@x.io"}
Passwords == {"Passw0rd1", "Passw0rd2"}

\* UserCreate bodies: username, full_name, email, password.
UserCreates ==
    [username : Usernames, full_name : {None, "Al"}, email : Emails,
     password : Passwords]

\* UserUpdate bodies: full_name and email, both optional.
UserUpdates == [full_name : {None, "", "Al"}, email : Emails \cup {None}]

\* pwd_context.hash and pwd_context.verify: the hash is not the password,
\* and a password verifies against the hash it gave.
get_password_hash(password) == <<"hash", password>>
verify_passwordMutant(plain_password, hashed_password) == TRUE
verify_password(plain_password, hashed_password) ==
    hashed_password = get_password_hash(plain_password)

\* UserResponse.model_validate(user)
UserResponse(id, row) ==
    [id |-> id, username |-> row.username, full_name |-> row.full_name,
     email |-> row.email, is_active |-> row.is_active]

\* select(User).where((User.email == email) | (User.username == username))
SelectUsersMatching(email, username) ==
    {id \in DOMAIN users :
        users[id].email = email \/ users[id].username = username}

\* POST /users/register: register_user(db, user_data).  scalar_one_or_none()
\* raises MultipleResultsFound when the SELECT gives two rows; nothing
\* catches it, so the catch-all handler answers 500.  The new row takes the
\* body's username, email and password; full_name is not copied.
register_user(user_data) ==
    LET existing == SelectUsersMatching(user_data.email, user_data.username)
        id == next_user_id
        row == [username |-> user_data.username, full_name |-> None,
                email |-> user_data.email,
                password_hash |-> get_password_hash(user_data.password),
                is_active |-> TRUE]
    IN
    /\ IF Cardinality(existing) > 1
       THEN /\ last' = Response("register_user", HTTP_500_INTERNAL_SERVER_ERROR,
                                NoId, NoView)
            /\ UNCHANGED <<users, next_user_id>>
       ELSE IF existing # {}
       THEN /\ last' = Response("register_user", HTTP_400_BAD_REQUEST, NoId, NoView)
            /\ UNCHANGED <<users, next_user_id>>
       ELSE /\ next_user_id <= MaxUserId
            /\ next_user_id' = next_user_id + 1
            /\ users' = Put(users, id, row)
            /\ last' = Response("register_user", HTTP_201_CREATED, id,
                                UserResponse(id, row))
    /\ UNCHANGED <<user_groups, categoryVars, agentVars, tokenVars, fileVars, appVars>>

\* _validate_unique_email(db, email, exclude_id): the rows that make it raise.
EmailTaken(email, exclude_id) ==
    \E id \in DOMAIN users : users[id].email = email /\ id # exclude_id

\* The row after  if update_data.full_name: ...  if update_data.email: ...
\* (None and "" are falsy and keep the stored value).
UserAfterUpdate(row, update_data) ==
    [row EXCEPT !.full_name = IF update_data.full_name \in {None, ""}
                              THEN @ ELSE update_data.full_name,
                !.email = IF update_data.email = None THEN @ ELSE update_data.email]

\* PUT /users/me: update_user_details(db, user_id, update_data).
update_user_details(user_id, update_data) ==
    /\ IF user_id \notin DOMAIN users
       THEN /\ last' = Response("update_user_details", HTTP_404_NOT_FOUND,
                                user_id, NoView)
            /\ UNCHANGED users
       ELSE IF update_data.email # None /\ EmailTaken(update_data.email, user_id)
       THEN /\ last' = Response("update_user_details", HTTP_400_BAD_REQUEST,
                                user_id, NoView)
            /\ UNCHANGED users
       ELSE LET row == UserAfterUpdate(users[user_id], update_data) IN
            /\ users' = Put(users, user_id, row)
            /\ last' = Response("update_user_details", HTTP_200_OK, user_id,
                                UserResponse(user_id, row))
    /\ UNCHANGED <<next_user_id, user_groups, categoryVars, agentVars, tokenVars,
                   fileVars, appVars>>

\* UPDATE users SET is_active = false: no route writes the column, the
\* database's administrator does.
DeactivateUser(user_id) ==
    /\ user_id \in DOMAIN users
    /\ users[user_id].is_active
    /\ users' = [users EXCEPT ![user_id].is_active = FALSE]
    /\ UNCHANGED <<next_user_id, user_groups, last, categoryVars, agentVars,
                   tokenVars, fileVars, appVars>>

\* DELETE FROM users, again the administrator's: the foreign keys on
\* users.id are ON DELETE CASCADE, and so are those on agents.id.
RemoveUser(user_id) ==
    LET gone == {a \in DOMAIN agents : agents[a].owner_id = user_id} IN
    /\ user_id \in DOMAIN users
    /\ users' = Drop(users, user_id)
    /\ user_groups' = {ug \in user_groups : ug[1] # user_id}
    /\ agents' = [a \in DOMAIN agents \ gone |-> agents[a]]
    /\ agent_categories' = {ac \in agent_categories : ac[1] \notin gone}
    /\ agent_groups' = {ag \in agent_groups : ag[1] \notin gone}
    /\ agent_files' = [f \in {x \in DOMAIN agent_files :
                                 agent_files[x].agent_id \notin gone}
                         |-> agent_files[f]]
    /\ UNCHANGED <<next_user_id, next_agent_id, next_file_id, storage, uploads,
                   last, categoryVars, tokenVars, appVars>>

\* settings.security.access_token_expire_minutes, required from the
\* environment: the deployment sets the codec's default.
ACCESS_TOKEN_EXPIRE_MINUTES == DefaultExpireMinutes

\* authenticate_user(db, username, password): the error it raises, or the
\* id of the user it returns.  The row's is_active is not read.
ResourceNotFound == "ResourceNotFoundException"
PermissionDenied == "PermissionDeniedException"
authenticate_user(username, password) ==
    LET found == {id \in DOMAIN users : users[id].username = username} IN
    IF found = {} THEN [raises |-> ResourceNotFound, id |-> NoId]
    ELSE LET id == CHOOSE i \in found : TRUE IN
         IF ~verify_password(password, users[id].password_hash)
         THEN [raises |-> PermissionDenied, id |-> id]
         ELSE [raises |-> None, id |-> id]

\* encode_jwt(TokenData(id, username, ...), expires_delta): a signed token
\* with the user's id and username that expires after the delta.
encode_jwt(id, username, minutes) ==
    [id |-> id, username |-> username, exp |-> now + minutes, signed |-> TRUE]

\* The response of a login: the status and the access token, if any.
LoginResult(op, status, id, access_token) ==
    [op |-> op, status |-> status, id |-> id, view |-> NoView,
     access_token |-> access_token]

\* The route's part after authenticate_user returned user id.
IssueToken(op, id) ==
    LET access_token == encode_jwt(id, users[id].username, ACCESS_TOKEN_EXPIRE_MINUTES) IN
    /\ Cardinality(tokens \cup {access_token}) <= MaxTokens
    /\ tokens' = tokens \cup {access_token}
    /\ last' = LoginResult(op, HTTP_200_OK, id, {access_token})

\* POST /auth/token: both errors of authenticate_user become the same 401.
login_for_access_token(username, password) ==
    LET user == authenticate_user(username, password) IN
    /\ IF user.raises \in {ResourceNotFound, PermissionDenied}
       THEN /\ last' = LoginResult("login_for_access_token", HTTP_401_UNAUTHORIZED,
                                   NoId, {})
            /\ UNCHANGED tokens
       ELSE IssueToken("login_for_access_token", user.id)
    /\ UNCHANGED <<now, userVars, categoryVars, agentVars, fileVars, appVars>>

\* POST /users/login: authenticate_user is called outside any try, so its
\* errors reach the application's handlers (404 and 403); the test
\* "if not user" never fires.
login(username, password) ==
    LET user == authenticate_user(username, password) IN
    /\ IF user.raises = ResourceNotFound
       THEN /\ last' = LoginResult("login", HTTP_404_NOT_FOUND, NoId, {})
            /\ UNCHANGED tokens
       ELSE IF user.raises = PermissionDenied
       THEN /\ last' = LoginResult("login", HTTP_403_FORBIDDEN, NoId, {})
            /\ UNCHANGED tokens
       ELSE IssueToken("login", user.id)
    /\ UNCHANGED <<now, userVars, categoryVars, agentVars, fileVars, appVars>>

\* Bearer tokens a request can carry: those issued, and forged ones.
ForgedTokens ==
    {[id |-> 1, username |-> u, exp |-> DefaultExpireMinutes + MaxTime + 1,
      signed |-> FALSE] : u \in Usernames}
BearerTokens == tokens \cup ForgedTokens

\* extract_token_data(token): the jwt error it raises, or None.
extract_token_data(token) ==
    IF ~token.signed THEN "InvalidTokenError"
    ELSE IF token.exp <= now THEN "ExpiredSignatureError"
    ELSE None

\* Depends(get_current_user) of core/auth.py.  A jwt error becomes the
\* credentials exception (401); get_user_by_username raises
\* ResourceNotFoundException for an absent user, outside the try, so it
\* reaches the handlers (404) and "if not user" never fires; the row's
\* is_active is not read.
get_current_user(token) ==
    LET found == {id \in DOMAIN users : users[id].username = token.username} IN
    /\ last' = IF extract_token_data(token) # None
               THEN Response("get_current_user", HTTP_401_UNAUTHORIZED, NoId, NoView)
               ELSE IF found = {}
               THEN Response("get_current_user", HTTP_404_NOT_FOUND, NoId, NoView)
               ELSE LET id == CHOOSE i \in found : TRUE IN
                    Response("get_current_user", HTTP_200_OK, id,
                             UserResponse(id, users[id]))
    /\ UNCHANGED <<tokenVars, userVars, categoryVars, agentVars, fileVars, appVars>>

\* Registrations and updates of users, one request at a time.
NextUser ==
    \/ \E user_data \in UserCreates : register_user(user_data)
    \/ \E id \in UserRowIds, update_data \in UserUpdates :
          update_user_details(id, update_data)

SpecUser == Init /\ [][NextUser]_vars

\* The registrations that precede the logins: one email and one password
\* for each username.
AuthUserCreates ==
    {[username |-> "alice", full_name |-> None, email |-> "a@x.io",
      password |-> "Passw0rd1"],
     [username |-> "bob", full_name |-> None, email |-> "b@x.io",
      password |-> "Passw0rd2"]}

\* Logins and authenticated requests, one at a time, as the clock advances
\* and the administrator deactivates or removes users.
NextAuth ==
    \/ Tick
    \/ \E user_data \in AuthUserCreates : register_user(user_data)
    \/ \E id \in UserRowIds : DeactivateUser(id)
    \/ \E id \in UserRowIds : RemoveUser(id)
    \/ \E u \in Usernames, p \in Passwords : login_for_access_token(u, p)
    \/ \E u \in Usernames, p \in Passwords : login(u, p)
    \/ \E t \in BearerTokens : get_current_user(t)

SpecAuth == Init /\ [][NextAuth]_vars

---------------------------------------------------------------------------
\* Properties of the user store.

\* All stored usernames are pairwise distinct, and so are all stored emails.
UsersDistinct ==
    \A a, b \in DOMAIN users :
        a # b => /\ users[a].username # users[b].username
                 /\ users[a].email # users[b].email

\* C14: register_user answers 400 (DuplicateResource) and leaves the users
\* table unchanged whenever the requested username or the requested email
\* belongs to a stored user, be it one user matching both or two users
\* matching one each; hence after any sequence of register_user and
\* update_user_details calls all stored usernames are pairwise distinct and
\* all stored emails are pairwise distinct.
C14_DuplicateRegisterRejected ==
    /\ [][\A user_data \in UserCreates :
             (/\ SelectUsersMatching(user_data.email, user_data.username) # {}
              /\ register_user(user_data))
             => /\ last'.status = HTTP_400_BAD_REQUEST
                /\ users' = users]_vars
    /\ []UsersDistinct

\* The stored users a login with these credentials should succeed for.
ActiveUsersWith(username, password) ==
    {id \in DOMAIN users :
        /\ users[id].username = username
        /\ users[id].is_active
        /\ verify_password(password, users[id].password_hash)}

\* C15: a login issues a token only when a user with the given username is
\* stored, is active, and the password verifies against the stored hash;
\* for an absent username, an inactive user or a wrong password the login
\* answers the same 401 and issues no token.
C15_LoginRequiresActiveUser ==
    [][\A u \in Usernames, p \in Passwords :
          (/\ ActiveUsersWith(u, p) = {}
           /\ login_for_access_token(u, p) \/ login(u, p))
          => /\ last'.status = HTTP_401_UNAUTHORIZED
             /\ last'.access_token = {}
             /\ tokens' = tokens]_vars

\* C16: get_current_user(token) returns the stored user with the token's
\* username when the token is validly signed and unexpired; it answers 401
\* whenever the token is malformed or expired or no active user with that
\* username is stored at the time of the request.
C16_CurrentUserIsStoredAndActive ==
    [][\A t \in BearerTokens :
          get_current_user(t)
          => LET matching == {id \in DOMAIN users :
                                 /\ users[id].username = t.username
                                 /\ users[id].is_active}
             IN IF t.signed /\ t.exp > now /\ matching # {}
                THEN /\ last'.status = HTTP_200_OK
                     /\ last'.id \in matching
                     /\ last'.view = UserResponse(last'.id, users[last'.id])
                ELSE last'.status = HTTP_401_UNAUTHORIZED]_vars

---------------------------------------------------------------------------
\* The session of a request (db/database.py get_db) around the agent
\* service, whose create_agent and update_agent call db.commit() themselves
\* and then db.refresh().  Agent requests interleave between the two calls:
\* a request past its commit is an element of calls.

\* get_db after the route finished: commit if nothing was raised, rollback
\* otherwise, and close in both cases.
get_db(raised) ==
    [committed |-> ~raised, rolled_back |-> raised, closed |-> TRUE]

\* The response of an agent request and what get_db did with its session.
SessionResult(op, status, id, view, user) ==
    [op |-> op, status |-> status, id |-> id, view |-> view, user |-> user.id,
     session |-> get_db(status >= HTTP_400_BAD_REQUEST)]

\* create_agent up to and including db.commit().  An IntegrityError is
\* rolled back and ends the request with 500; otherwise the row is
\* committed before the rest of the call runs.
CreateAgentCommit(user, agent_data) ==
    /\ Cardinality(calls) < MaxInFlight
    /\ next_agent_id <= MaxAgentId
    /\ next_agent_id' = next_agent_id + 1
    /\ LET id == next_agent_id
           row == [name |-> agent_data.name, description |-> agent_data.description,
                   prompt |-> agent_data.prompt, is_public |-> agent_data.is_public,
                   owner_id |-> user.id]
       IN
       IF AgentNameTaken(agent_data.name, id)
       THEN /\ last' = SessionResult("create_agent", HTTP_500_INTERNAL_SERVER_ERROR,
                                     NoId, NoView, user)
            /\ UNCHANGED <<agents, calls>>
       ELSE /\ agents' = Put(agents, id, row)
            /\ calls' = calls \cup {[op |-> "create_agent", user |-> user, id |-> id,
                                     before |-> {}, row |-> row]}
            /\ UNCHANGED last
    /\ UNCHANGED <<agent_categories, agent_groups, DEBUG_MODE, categoryVars, tokenVars, fileVars,
                   userVars>>

\* update_agent up to and including db.commit(), for the fields the agent
\* router's bodies can change without an error before the commit.
UpdateAgentCommit(user, agent_id, update_data) ==
    /\ Cardinality(calls) < MaxInFlight
    /\ "categories" \notin DOMAIN update_data
    /\ IF SelectOwnedAgent(agent_id, user.id) = {}
       THEN /\ last' = SessionResult("update_agent", HTTP_404_NOT_FOUND, agent_id,
                                     NoView, user)
            /\ UNCHANGED <<agents, calls>>
       ELSE LET row == ApplyUpdate(agents[agent_id], update_data) IN
            IF row.name = None \/ AgentNameTaken(row.name, agent_id)
            THEN /\ last' = SessionResult("update_agent", HTTP_500_INTERNAL_SERVER_ERROR,
                                          agent_id, NoView, user)
                 /\ UNCHANGED <<agents, calls>>
            ELSE /\ agents' = Put(agents, agent_id, row)
                 /\ calls' = calls \cup {[op |-> "update_agent", user |-> user,
                                          id |-> agent_id,
                                          before |-> {agents[agent_id]}, row |-> row]}
                 /\ UNCHANGED last
    /\ UNCHANGED <<agent_categories, agent_groups, next_agent_id, DEBUG_MODE, categoryVars,
                   tokenVars, fileVars, userVars>>

\* The rest of the call: db.refresh(agent), a SELECT of the row, raises when
\* the row is gone or the database fails (db_error); the except branch then
\* calls db.rollback(), which has nothing left to undo, and raises, and the
\* router answers 500.  Otherwise the call returns the row as it is now.
AgentRefresh(call, db_error) ==
    /\ call \in calls
    /\ calls' = calls \ {call}
    /\ last' = IF call.id \notin DOMAIN agents \/ db_error
               THEN SessionResult(call.op, HTTP_500_INTERNAL_SERVER_ERROR, call.id,
                                  NoView, call.user)
               ELSE SessionResult(call.op,
                                  IF call.op = "create_agent" THEN HTTP_201_CREATED
                                  ELSE HTTP_200_OK,
                                  call.id, AgentResponse(call.id, agents[call.id]),
                                  call.user)
    /\ UNCHANGED <<DEBUG_MODE, categoryVars, agentVars, tokenVars, fileVars, userVars>>

\* Agent requests that interleave at the service's commit.
NextSession ==
    \/ \E u \in CurrentUsers, data \in FileAgentCreates : CreateAgentCommit(u, data)
    \/ \E u \in CurrentUsers, id \in AgentIds, data \in AgentUpdates :
          UpdateAgentCommit(u, id, data)
    \/ \E call \in calls, db_error \in BOOLEAN : AgentRefresh(call, db_error)
    \/ \E u \in CurrentUsers, id \in AgentIds : DeleteAgent(u, id)

SpecSession == Init /\ [][NextSession]_vars

\* The change a request committed is still in the store.
ChangeRemains(call, store) ==
    /\ call.id \in DOMAIN store
    /\ store[call.id] = call.row
    /\ {call.row} # call.before

\* C17: a request's store changes are atomic: they are part of the
\* committed store only if its lifecycle operation finishes without raising;
\* when a step raises none of the request's changes remain, and in every
\* case the session is closed when the request ends.
C17_RequestsAtomic ==
    [][/\ \A call \in calls, db_error \in BOOLEAN :
             AgentRefresh(call, db_error)
             => /\ last'.session.closed
                /\ last'.status >= HTTP_400_BAD_REQUEST
                      => ~ChangeRemains(call, agents')
       /\ (/\ calls' = calls /\ last' # last
           /\ "session" \in DOMAIN last'
           /\ last'.status >= HTTP_400_BAD_REQUEST)
             => agents' = agents /\ last'.session.closed]_vars

---------------------------------------------------------------------------
\* The boundary: the exceptions of core/exceptions.py and of the libraries,
\* the error table of api/exception_handler.py, and the handlers main.py
\* registers from api/error_handlers.py.  An exception is its class and
\* its text, str(exc).

\* class -> the class it derives from.
Base ==
    [t \in {"CategoryNotFoundException", "AgentNotFoundException",
            "FileNotFoundException"} |-> ResourceNotFound]
    @@ [t \in {"DuplicateCategoryException", "DuplicateAgentException"}
          |-> "DuplicateResourceException"]
    @@ [t \in {"UnauthorizedAgentAccessException"} |-> PermissionDenied]
    @@ [t \in {"TransactionRollbackException"} |-> "DatabaseException"]
    @@ [t \in {ResourceNotFound, "DuplicateResourceException", PermissionDenied,
               "InvalidInputException", "DatabaseException",
               "AgentFileUploadException", "UnsupportedFileTypeException",
               "RequestValidationError", "ValidationError",
               "MultipleResultsFound", "NameError"} |-> "Exception"]

Exceptions == [type : DOMAIN Base, text : {"text-1", "text-2"}]

\* type(exc).__mro__, up to Exception.
RECURSIVE Mro(_)
Mro(type) == IF type = "Exception" THEN <<type>> ELSE <<type>> \o Mro(Base[type])

\* The table of exception_handler.py, keyed by class.
EXCEPTION_MAP ==
    [t \in {"RequestValidationError"} |-> <<422, "Validation Error">>]
    @@ [t \in {ResourceNotFound, "CategoryNotFoundException"}
          |-> <<404, "Resource Not Found">>]
    @@ [t \in {"DuplicateCategoryException", "DuplicateResourceException"}
          |-> <<400, "Duplicate Resource">>]
    @@ [t \in {PermissionDenied} |-> <<403, "Permission Denied">>]
    @@ [t \in {"InvalidInputException"} |-> <<422, "Invalid Input">>]
    @@ [t \in {"DatabaseException"} |-> <<500, "Database Error">>]

GenericDetails == "An unexpected error occurred."

\* The result of a handler: the exception handled, the status and the body.
ErrorResult(op, exc, status, body) ==
    [op |-> op, status |-> status, id |-> NoId, view |-> NoView, exc |-> exc,
     body |-> body]

\* global_exception_handler(request, exc).  The table is read with
\* EXCEPTION_MAP.get(type(exc), ...), the class itself and not its bases;
\* in debug mode the body carries traceback.format_exc().
global_exception_handler(exc) ==
    LET info == IF exc.type \in DOMAIN EXCEPTION_MAP THEN EXCEPTION_MAP[exc.type]
                ELSE <<500, "Internal Server Error">>
        error == [code |-> info[1], message |-> info[2],
                  details |-> IF info[1] # 500 THEN exc.text ELSE GenericDetails]
    IN
    /\ last' = IF exc.type = "ValidationError"
               THEN ErrorResult("global_exception_handler", exc, 422,
                                [code |-> 422, message |-> "Validation Error",
                                 details |-> "field errors"])
               ELSE IF DEBUG_MODE
               THEN ErrorResult("global_exception_handler", exc, info[1],
                                error @@ [traceback |-> <<"Traceback", exc.text>>])
               ELSE ErrorResult("global_exception_handler", exc, info[1], error)
    /\ UNCHANGED <<categoryVars, agentVars, tokenVars, fileVars, userVars, appVars>>

\* app.add_exception_handler(...) of main.py, beside FastAPI's own handler
\* of RequestValidationError: class -> the status, message and details of
\* the handler registered for it.
exception_handlers(exc) ==
    [t \in {ResourceNotFound} |-> <<404, "Resource Not Found", exc.text>>]
    @@ [t \in {"DuplicateResourceException"} |-> <<400, "Duplicate Resource", exc.text>>]
    @@ [t \in {PermissionDenied} |-> <<403, "Permission Denied", exc.text>>]
    @@ [t \in {"DatabaseException"} |-> <<500, "Database Error", exc.text>>]
    @@ [t \in {"InvalidInputException"} |-> <<422, "Invalid Input", exc.text>>]
    @@ [t \in {"RequestValidationError"} |-> <<422, "Validation Error", "field errors">>]
    @@ [t \in {"Exception"} |-> <<500, "Internal Server Error", GenericDetails>>]

\* The application handling exc: the handler of the first class of
\* type(exc).__mro__ that has one.
lookup_handler(exc) ==
    LET mro == Mro(exc.type)
        first == CHOOSE i \in 1..Len(mro) :
                    /\ mro[i] \in DOMAIN exception_handlers(exc)
                    /\ \A j \in 1..(i - 1) : mro[j] \notin DOMAIN exception_handlers(exc)
        info == exception_handlers(exc)[mro[first]]
    IN
    /\ last' = ErrorResult("exception_handlers", exc, info[1],
                           [code |-> info[1], message |-> info[2], details |-> info[3]])
    /\ UNCHANGED <<categoryVars, agentVars, tokenVars, fileVars, userVars, appVars>>

\* The boundary started with either setting of DEBUG_MODE.
InitBoundary == \E debug_mode \in BOOLEAN : InitWith(debug_mode)

NextBoundary ==
    \/ \E exc \in Exceptions : global_exception_handler(exc)
    \/ \E exc \in Exceptions : lookup_handler(exc)

SpecBoundary == InitBoundary /\ [][NextBoundary]_vars

\* The classes of business errors of one kind: the kind's class and the
\* classes derived from it.
KindOf(base) == {t \in DOMAIN Base : \E i \in 1..Len(Mro(t)) : Mro(t)[i] = base}

\* C18: the error table maps every raised business error by its kind:
\* every not-found error (category, agent, user or file) gives 404, every
\* duplicate error 400, every permission-denied error (unauthorized agent
\* access included) 403, invalid input 422, database errors 500, and any
\* other exception 500.
C18_ErrorTableByKind ==
    (last.op = "global_exception_handler"
     /\ last.exc.type \notin {"RequestValidationError", "ValidationError"})
    => last.status =
          IF last.exc.type \in KindOf(ResourceNotFound) THEN 404
          ELSE IF last.exc.type \in KindOf("DuplicateResourceException") THEN 400
          ELSE IF last.exc.type \in KindOf(PermissionDenied) THEN 403
          ELSE IF last.exc.type \in KindOf("InvalidInputException") THEN 422
          ELSE 500

\* C19: every 500 response carries only a generic message: neither the
\* exception's own text nor a stack trace is in its body, whatever the
\* configuration.
C19_ServerErrorsGeneric ==
    (last.op \in {"global_exception_handler", "exception_handlers"}
     /\ last.status = 500)
    => /\ "traceback" \notin DOMAIN last.body
       /\ last.body.details = GenericDetails

---------------------------------------------------------------------------
\* Group membership (table user_groups, primary key (user_id, group_id)).
\* The groups 1..MaxGroupId are stored; no code under the routes adds one.

GroupIds == 1..MaxGroupId

\* assign_user_to_group(db, user_id, group_id): the INSERT of the flush
\* meets the primary key and the foreign key on users.id; every
\* IntegrityError is rolled back and raised again as
\* DuplicateResourceException.  The call returns None otherwise.
assign_user_to_group(user_id, group_id) ==
    /\ IF <<user_id, group_id>> \in user_groups \/ user_id \notin DOMAIN users
       THEN /\ last' = [op |-> "assign_user_to_group", status |-> HTTP_400_BAD_REQUEST,
                        id |-> user_id, view |-> NoView,
                        raises |-> "DuplicateResourceException"]
            /\ UNCHANGED user_groups
       ELSE /\ user_groups' = user_groups \cup {<<user_id, group_id>>}
            /\ last' = [op |-> "assign_user_to_group", status |-> HTTP_200_OK,
                        id |-> user_id, view |-> NoView, raises |-> None]
    /\ UNCHANGED <<users, next_user_id, categoryVars, agentVars, tokenVars, fileVars,
                   appVars>>

\* Registered users are assigned to groups, and removed.
NextGroup ==
    \/ \E user_data \in AuthUserCreates : register_user(user_data)
    \/ \E id \in UserRowIds, g \in GroupIds : assign_user_to_group(id, g)
    \/ \E id \in UserRowIds : RemoveUser(id)

SpecGroup == Init /\ [][NextGroup]_vars

\* C20: assign_user_to_group(user, group) is idempotent: called when the
\* membership already exists it returns without raising and leaves the
\* memberships unchanged, so calling it twice gives the result and the
\* final state of calling it once.
C20_AssignIdempotent ==
    [][\A id \in UserRowIds, g \in GroupIds :
          (<<id, g>> \in user_groups /\ assign_user_to_group(id, g))
          => /\ last'.raises = None
             /\ last'.status = HTTP_200_OK
             /\ user_groups' = user_groups]_vars

---------------------------------------------------------------------------
\* PUT /users/me/password: change_password(db, user_id, old_password,
\* new_password).  The PasswordUpdate body the route parses
\* (db/schemas/user_schemas.py) has no validator: the two passwords may be
\* equal.  PermissionDeniedException reaches the handlers as 403.
change_password(user_id, old_password, new_password) ==
    /\ IF user_id \notin DOMAIN users
       THEN /\ last' = Response("change_password", HTTP_404_NOT_FOUND, user_id, NoView)
            /\ UNCHANGED users
       ELSE IF ~verify_password(old_password, users[user_id].password_hash)
       THEN /\ last' = Response("change_password", HTTP_403_FORBIDDEN, user_id, NoView)
            /\ UNCHANGED users
       ELSE /\ users' = [users EXCEPT ![user_id].password_hash =
                                         get_password_hash(new_password)]
            /\ last' = Response("change_password", HTTP_200_OK, user_id, NoView)
    /\ UNCHANGED <<next_user_id, user_groups, categoryVars, agentVars, tokenVars,
                   fileVars, appVars>>

\* Registered users change their passwords and log in.
NextPassword ==
    \/ \E user_data \in AuthUserCreates : register_user(user_data)
    \/ \E id \in UserRowIds, old, new \in Passwords : change_password(id, old, new)
    \/ \E u \in Usernames, p \in Passwords : login_for_access_token(u, p)

SpecPassword == Init /\ [][NextPassword]_vars

---------------------------------------------------------------------------
\* GET /categories/: the paginated list.  A query parameter is a set: {} when
\* the request leaves it out, {n} when it gives n.

\* select(Category).offset(offset).limit(limit) over the rows in the order
\* the database returns them; the statement has no ORDER BY.
PageMutant(order, offset, limit) ==
    SubSeq(order, 1, IF limit < Len(order) THEN limit ELSE Len(order))
Page(order, offset, limit) ==
    SubSeq(order, offset + 1,
           IF offset + limit < Len(order) THEN offset + limit ELSE Len(order))

\* get_all_categories(limit, offset, db, current_user): Query(10, ge=1,
\* le=100) and Query(0, ge=0) reject the request before the route runs;
\* order is the order in which the database returns the stored ids.
get_all_categories(user, limit_param, offset_param, order) ==
    LET limit == IF limit_param = {} THEN DefaultLimit ELSE Minutes(limit_param)
        offset == IF offset_param = {} THEN 0 ELSE Minutes(offset_param)
        page == Page(order, offset, limit)
    IN
    /\ Len(order) = Cardinality(DOMAIN categories)
    /\ Range(order) = DOMAIN categories
    /\ last' = IF limit < MinLimit \/ limit > MaxLimit \/ offset < 0
               THEN [op |-> "get_all_categories",
                     status |-> HTTP_422_UNPROCESSABLE_ENTITY, id |-> NoId,
                     view |-> NoView, limit |-> limit, offset |-> offset,
                     items |-> <<>>]
               ELSE [op |-> "get_all_categories", status |-> HTTP_200_OK,
                     id |-> NoId, view |-> NoView, limit |-> limit,
                     offset |-> offset,
                     items |-> [i \in 1..Len(page) |->
                                   CategoryResponse(page[i], categories[page[i]])]]
    /\ UNCHANGED <<categoryVars, agentVars, tokenVars, fileVars, userVars, appVars>>

\* An admin creates and deletes categories, one request at a time, and any
\* user lists them.
NextListing ==
    \/ \E u \in CurrentUsers, raw \in {Alpha, Bravo}, d \in {None, "d1"} :
          CreateCategoryBegin(1, u, raw, d)
    \/ \E tx \in BagToSet(inflight) : CreateCategoryCommit(tx)
    \/ \E u \in CurrentUsers, id \in CategoryIds : DeleteCategoryBegin(1, u, id, FALSE)
    \/ \E tx \in BagToSet(inflight) : DeleteCategoryCommit(tx)
    \/ \E u \in CurrentUsers,
          l \in {{}, {0}, {1}, {2}, {MaxLimit}, {MaxLimit + 1}},
          o \in {{}, {-1}, {0}, {1}, {3}},
          order \in UNION {[1..n -> CategoryIds] : n \in 0..MaxCategoryId} :
          get_all_categories(u, l, o, order)

SpecListing == Init /\ [][NextListing]_vars

\* C22: listing categories with a limit outside [1, 100] or a negative
\* offset answers 422 and returns nothing; with valid parameters (default
\* limit 10, offset 0) the result has at most limit items and consists of
\* the stored categories that follow the first offset ones: distinct stored
\* categories, as many as remain after offset of them, up to limit.
C22_ListingPaginated ==
    last.op = "get_all_categories"
    => IF last.limit < 1 \/ last.limit > 100 \/ last.offset < 0
       THEN last.status = HTTP_422_UNPROCESSABLE_ENTITY /\ last.items = <<>>
       ELSE LET n == Cardinality(DOMAIN categories)
                rest == IF n > last.offset THEN n - last.offset ELSE 0
            IN /\ last.status = HTTP_200_OK
               /\ Len(last.items) <= last.limit
               /\ Len(last.items) = IF rest < last.limit THEN rest ELSE last.limit
               /\ \A i \in 1..Len(last.items) :
                     /\ last.items[i].id \in DOMAIN categories
                     /\ last.items[i]
                           = CategoryResponse(last.items[i].id, categories[last.items[i].id])
                     /\ \A j \in 1..Len(last.items) :
                           last.items[i].id = last.items[j].id => i = j

\* C22's case: two categories are stored and a listing with limit 1 and
\* offset 1 returned exactly one of them.
C22_Witness ==
    /\ last.op = "get_all_categories" /\ last.status = HTTP_200_OK
    /\ Cardinality(DOMAIN categories) = 2
    /\ last.limit = 1 /\ last.offset = 1
    /\ Len(last.items) = 1

---------------------------------------------------------------------------
\* Properties of agent updates and deletes.

\* C23: over any sequence of operations an agent's is_public flag goes from
\* false to true only through an operation of the agent's owner and only
\* when the agent has at least one category association at that moment, and
\* from true to false only through an operation of its owner.
C23_VisibilityTransitions ==
    [][\A id \in AgentIds :
          (/\ id \in DOMAIN agents /\ id \in DOMAIN agents'
           /\ agents'[id].is_public # agents[id].is_public)
          => /\ last'.id = id
             /\ last'.user = agents[id].owner_id
             /\ agents'[id].is_public
                   => \E ac \in agent_categories : ac[1] = id]_vars

\* C24: update_agent by the owner applies exactly the fields present in
\* the request and leaves every other field of the agent unchanged; when
\* the request carries a category set (of stored categories) the agent's
\* associations afterwards are exactly that set, and when it carries none
\* the associations are unchanged.
C24_UpdateAppliesPresentFields ==
    [][\A u \in CurrentUsers, id \in AgentIds, data \in AgentUpdates :
          (/\ SelectOwnedAgent(id, u.id) # {}
           /\ "name" \in DOMAIN data
                 => data.name # None /\ ~AgentNameTaken(data.name, id)
           /\ "categories" \in DOMAIN data
                 => Range(data.categories) \subseteq DOMAIN categories
           /\ UpdateAgent(u, id, data))
          => /\ last'.status = HTTP_200_OK
             /\ id \in DOMAIN agents'
             /\ \A f \in DOMAIN agents[id] :
                   agents'[id][f] = IF f \in DOMAIN data THEN data[f] ELSE agents[id][f]
             /\ IF "categories" \in DOMAIN data
                THEN {ac[2] : ac \in {x \in agent_categories' : x[1] = id}}
                        = Range(data.categories)
                ELSE agent_categories' = agent_categories]_vars

---------------------------------------------------------------------------
\* Properties of the upload's two steps and of its storage path.

C30_PathInjective ==
    [][\A u \in CurrentUsers, a \in DOMAIN agents, f \in Filenames,
          ct \in ContentTypes, c \in Contents :
          (/\ SaveFileBegin(u, a, f, ct, c)
           /\ AgentLookup(a) = "agent" /\ IsOwner(a, u) /\ TypeAllowed(ct))
          => \A id \in DOMAIN agent_files :
                (agent_files[id].agent_id # a \/ agent_files[id].filename # f)
                => LET other == Destination(agent_files[id].agent_id,
                                            agent_files[id].filename)
                   IN /\ other # Destination(a, f)
                      /\ other \in DOMAIN storage => storage'[other] = storage[other]]_vars

---------------------------------------------------------------------------
\* The application on a database that already holds rows.

\* RESTful listings of agents: the service's SELECTs, answered 200 with the
\* AgentResponse of every selected row.
\* select(Agent).where(Agent.owner_id == user_id), for the current user.
get_agents_by_user(user) ==
    /\ last' = AgentResult("get_agents_by_user", HTTP_200_OK, user.id,
                  [agents |-> {AgentResponse(id, agents[id]) :
                                 id \in {a \in DOMAIN agents :
                                           agents[a].owner_id = user.id}}], user)
    /\ UNCHANGED <<categoryVars, agentVars, tokenVars, fileVars, userVars, appVars>>

\* select(Agent).where(Agent.owner_id == user_id, Agent.is_public.is_(True))
get_public_agents_by_user(user, user_id) ==
    /\ last' = AgentResult("get_public_agents_by_user", HTTP_200_OK, user_id,
                  [agents |-> {AgentResponse(id, agents[id]) :
                                 id \in {a \in DOMAIN agents :
                                           /\ agents[a].owner_id = user_id
                                           /\ agents[a].is_public}}], user)
    /\ UNCHANGED <<categoryVars, agentVars, tokenVars, fileVars, userVars, appVars>>

\* select(Agent).where(Agent.is_public.is_(True))
get_all_public_agentsMutant(user) ==
    /\ last' = AgentResult("get_all_public_agents", HTTP_200_OK, NoId,
                  [agents |-> {AgentResponse(id, agents[id]) : id \in DOMAIN agents}],
                  user)
    /\ UNCHANGED <<categoryVars, agentVars, tokenVars, fileVars, userVars, appVars>>
get_all_public_agents(user) ==
    /\ last' = AgentResult("get_all_public_agents", HTTP_200_OK, NoId,
                  [agents |-> {AgentResponse(id, agents[id]) :
                                 id \in {a \in DOMAIN agents : agents[a].is_public}}],
                  user)
    /\ UNCHANGED <<categoryVars, agentVars, tokenVars, fileVars, userVars, appVars>>

\* select(Agent).join(AgentCategory).where(AgentCategory.category_id ==
\* category_id, Agent.is_public.is_(True))
get_agents_by_category(user, category_id) ==
    /\ last' = AgentResult("get_agents_by_category", HTTP_200_OK, category_id,
                  [agents |-> {AgentResponse(id, agents[id]) :
                                 id \in {a \in DOMAIN agents :
                                           /\ <<a, category_id>> \in agent_categories
                                           /\ agents[a].is_public}}], user)
    /\ UNCHANGED <<categoryVars, agentVars, tokenVars, fileVars, userVars, appVars>>

\* The tables as the application finds them: both current users and both
\* categories are stored, and the agents and the rows that refer to them are
\* any that the tables' keys and foreign keys allow.
InitStored ==
    /\ users = [id \in UserIds |->
                  [username |-> IF id = 1 THEN "alice" ELSE "bob", full_name |-> None,
                   email |-> IF id = 1 THEN "a@x.io" ELSE "b@x.io",
                   password_hash |-> get_password_hash("Passw0rd1"),
                   is_active |-> TRUE]]
    /\ next_user_id = MaxUserId + 1
    /\ user_groups = {}
    /\ categories = [id \in CategoryIds |->
                       [name |-> IF id = 1 THEN Alpha
                                 ELSE IF id = 2 THEN Bravo
                                 ELSE <<"C", "h", "a", "r", "l", "i", "e">>,
                        description |-> None]]
    /\ next_category_id = MaxCategoryId + 1
    /\ inflight = EmptyBag
    /\ returned = <<>>
    /\ \E stored \in SUBSET AgentIds :
          /\ \E owner \in [stored -> UserIds], public \in [stored -> BOOLEAN] :
                agents = [id \in stored |->
                            [name |-> IF id = 1 THEN "agent-a"
                                      ELSE IF id = 2 THEN "agent-b" ELSE "agent-c",
                             description |-> None, prompt |-> "p",
                             is_public |-> public[id], owner_id |-> owner[id]]]
          /\ next_agent_id = IF stored = {} THEN 1
                             ELSE 1 + CHOOSE id \in stored : \A o \in stored : o <= id
          /\ agent_categories \in SUBSET (stored \X DOMAIN categories)
          /\ agent_groups \in {{}, stored \X {1}}
          /\ \E filed \in {{}, stored \cap {1}} :
                /\ agent_files = [id \in 1..Cardinality(filed) |->
                                    [agent_id |-> CHOOSE a \in filed : TRUE,
                                     filename |-> <<"a", "_", "b">>,
                                     content_type |-> "application/pdf"]]
                /\ next_file_id = Cardinality(filed) + 1
                /\ storage = [d \in {Destination(a, <<"a", "_", "b">>) : a \in filed}
                                |-> "v1"]
    /\ uploads = {}
    /\ now = 0
    /\ tokens = {}
    /\ DEBUG_MODE = FALSE
    /\ calls = {}
    /\ last = [op |-> "none", status |-> 0, id |-> NoId, view |-> NoView]

\* The stored users' requests, one at a time, while the administrator
\* removes users: get_current_user admits only a stored user.
NextStored ==
    \/ \E u \in CurrentUsers, id \in CategoryIds :
          u.id \in DOMAIN users /\ DeleteCategoryBegin(1, u, id, FALSE)
    \/ \E tx \in BagToSet(inflight) : DeleteCategoryCommit(tx)
    \/ \E u \in CurrentUsers, data \in FileAgentCreates :
          u.id \in DOMAIN users /\ CreateAgent(u, data)
    \/ \E u \in CurrentUsers, id \in AgentIds :
          u.id \in DOMAIN users /\ DeleteAgent(u, id)
    \/ \E id \in UserRowIds : RemoveUser(id)
    \/ \E u \in CurrentUsers : u.id \in DOMAIN users /\ get_agents_by_user(u)
    \/ \E u \in CurrentUsers, id \in UserIds :
          u.id \in DOMAIN users /\ get_public_agents_by_user(u, id)
    \/ \E u \in CurrentUsers : u.id \in DOMAIN users /\ get_all_public_agents(u)
    \/ \E u \in CurrentUsers, c \in CategoryIds :
          u.id \in DOMAIN users /\ get_agents_by_category(u, c)

SpecStored == InitStored /\ [][NextStored]_vars

\* C26: deleting a category removes that category and its agent-category
\* rows only: every agent stored before the delete is stored afterwards with
\* the same fields and owner, and the association rows of the other
\* categories, like the file rows, the group rows and the users, are
\* unchanged.
C26_DeleteCategoryFrame ==
    [][\A tx \in BagToSet(inflight) :
          DeleteCategoryCommit(tx)
          => /\ DOMAIN categories' = DOMAIN categories \ {tx.id}
             /\ \A id \in DOMAIN categories' : categories'[id] = categories[id]
             /\ agents' = agents
             /\ agent_categories' = {ac \in agent_categories : ac[2] # tx.id}
             /\ agent_groups' = agent_groups
             /\ agent_files' = agent_files
             /\ users' = users]_vars

\* A category was deleted while an agent is associated with another one.
C26_Witness ==
    /\ last.op = "delete" /\ last.status = HTTP_204_NO_CONTENT
    /\ last.id \notin DOMAIN categories
    /\ \E ac \in agent_categories : ac[1] \in DOMAIN agents /\ ac[2] # last.id

\* Every file row, category row and group row of an agent refers to a stored
\* agent, and every agent's owner is a stored user.
ReferencesHold ==
    /\ \A f \in DOMAIN agent_files : agent_files[f].agent_id \in DOMAIN agents
    /\ \A ac \in agent_categories : ac[1] \in DOMAIN agents
    /\ \A ag \in agent_groups : ag[1] \in DOMAIN agents
    /\ \A a \in DOMAIN agents : agents[a].owner_id \in DOMAIN users

\* C28: after delete_agent succeeds for the owner no file row, category row
\* or group row refers to the deleted agent; and in every reachable state each
\* such row refers to a stored agent and each agent's owner is a stored user.
C28_AgentOwnsItsRows ==
    /\ []ReferencesHold
    /\ [][\A u \in CurrentUsers, id \in AgentIds :
             (DeleteAgent(u, id) /\ last'.status = HTTP_204_NO_CONTENT)
             => /\ id \notin DOMAIN agents'
                /\ \A f \in DOMAIN agent_files' : agent_files'[f].agent_id # id
                /\ \A ac \in agent_categories' : ac[1] # id
                /\ \A ag \in agent_groups' : ag[1] # id]_vars

\* The owner deleted agent 1, whose file row went with it, while another
\* agent keeps its category row and its group row.
C28_Witness ==
    /\ last.op = "delete_agent" /\ last.status = HTTP_204_NO_CONTENT /\ last.id = 1
    /\ next_file_id = 2 /\ agent_files = <<>>
    /\ \E ac \in agent_categories : ac[1] = 2
    /\ \E ag \in agent_groups : ag[1] = 2

\* The agents a user may see: the public ones and the user's own.
VisibleTo(user) ==
    {a \in DOMAIN agents : agents[a].is_public \/ agents[a].owner_id = user.id}

ListingOps ==
    {"get_agents_by_user", "get_public_agents_by_user", "get_all_public_agents",
     "get_agents_by_category"}

\* The views of the agents among the given ones.
ViewsOf(ids) == {AgentResponse(a, agents[a]) : a \in ids}

\* C29: for every authenticated user U and every agent listing (own agents,
\* all public agents, public agents of a given user, public agents of a
\* category), each agent in the result is public or owned by U, and the
\* result is determined by the agents U may see: another user's private
\* agents neither appear in it nor change it.
C29_ListingsHidePrivateAgents ==
    /\ [](last.op \in ListingOps
          => \A v \in last.view.agents : v.is_public \/ v.owner_id = last.user)
    /\ [][\A u \in CurrentUsers :
             /\ get_agents_by_user(u)
                => last'.view.agents =
                     ViewsOf({a \in VisibleTo(u) : agents[a].owner_id = u.id})
             /\ get_all_public_agents(u)
                => last'.view.agents =
                     ViewsOf({a \in VisibleTo(u) : agents[a].is_public})
             /\ \A id \in UserIds :
                   get_public_agents_by_user(u, id)
                   => last'.view.agents =
                        ViewsOf({a \in VisibleTo(u) :
                                   agents[a].owner_id = id /\ agents[a].is_public})
             /\ \A c \in CategoryIds :
                   get_agents_by_category(u, c)
                   => last'.view.agents =
                        ViewsOf({a \in VisibleTo(u) :
                                   /\ <<a, c>> \in agent_categories
                                   /\ agents[a].is_public})]_vars

\* A listing of the public agents returned an agent while another user's
\* private agent is stored.
C29_Witness ==
    /\ last.op = "get_all_public_agents" /\ last.status = HTTP_200_OK
    /\ last.view.agents # {}
    /\ \E a \in DOMAIN agents : ~agents[a].is_public /\ agents[a].owner_id # last.user

---------------------------------------------------------------------------
\* Properties of the stored category names.

\* The rules of a category name: not blank, no leading or trailing
\* whitespace, 5 to 100 characters, only letters, digits, spaces, hyphens and
\* apostrophes.
NameRulesHold(name) ==
    /\ name # <<>>
    /\ strip(name) = name
    /\ Len(name) >= MinNameLength /\ Len(name) <= MaxNameLength
    /\ \A i \in 1..Len(name) :
          isalnum(name[i]) \/ isspace(name[i]) \/ name[i] \in {"-", "'"}

\* C27: in every reachable state every stored category name is non-blank,
\* has no leading or trailing whitespace, is 5 to 100 characters long and
\* consists only of letters, digits, spaces, hyphens and apostrophes, whether
\* create_category or update_category set it; and a request whose name,
\* trimmed, violates these rules is rejected by the validation (422) and
\* changes nothing, so that it never reaches create_category or
\* update_category.
C27_StoredNamesValid ==
    /\ [](\A id \in DOMAIN categories : NameRulesHold(categories[id].name))
    /\ [][\A u \in Admins, raw \in SerialNames, d \in Descriptions :
             /\ CreateCategoryBegin(1, u, raw, d) => NameRulesHold(strip(raw))
             /\ \A id \in DOMAIN categories :
                   UpdateCategoryBegin(1, u, id, raw, d)
                   => NameRulesHold(strip(raw))]_vars

====
